---- MODULE Spec2Model ----
(***************************************************************************)
(* Model of src/src/ldd.rs (rstrict): locating the ELF interpreter,        *)
(* parsing the loader's "--list" report and following every dependency     *)
(* through its chain of symbolic links.                                    *)
(*                                                                         *)
(* A Rust string is a sequence of glyphs (one-element strings; a file name *)
(* such as "lib.so" is one glyph).  A PathBuf is a record                  *)
(* [abs, comps]: PathBuf equality and hashing compare components, and      *)
(* ".." components are kept as they are written.                           *)
(***************************************************************************)
EXTENDS Integers, Sequences, FiniteSets, Bags, TLC

VARIABLES
    input,          \* parse_interp: the loader report handed to the parser
    srcLines,       \* the words the report was written from, line by line
    style,          \* the white space the report was written with
    paths,          \* parse_interp: the returned Vec<String>
    elf,            \* the binary as inspect_elf_interp reads it
    globs,          \* what glob::glob yields for each ld.so pattern
    fs,             \* the filesystem entries the walk can reach
    pc,             \* position in list / follow / follow_internal
    interp,         \* list: the Result<Option<String>> of inspect_elf_interp
    loader,         \* call_interp: what the loader sub-process produced
    dependencies,   \* follow: the Vec<String> it iterates
    di,             \* follow: number of entries of dependencies consumed
    seen,           \* follow: seen_deps, the shared HashSet<PathBuf>
    dep,            \* follow_internal: the current path
    checked,        \* follow_internal: dep passed the line-133 test in this iteration
    calls,          \* number of loader sub-processes spawned by this run
    ret             \* the Result returned by the run

vars == <<input, srcLines, style, paths, elf, globs, fs, pc, interp, loader,
          dependencies, di, seen, dep, checked, calls, ret>>

----------------------------------------------------------------------------
(* Bounds *)

MaxFields == 5      \* words on the free line of a report
MaxLines  == 2      \* lines of a report
MaxDeps   == 2      \* entries of the list handed to follow
PathMax   == 6      \* components of the longest path the kernel accepts; the
                    \* walk only ever lengthens a path through ".." targets

----------------------------------------------------------------------------
(* Strings *)

NUL == "NUL"
White == {" ", "\t", "\n", "\r"}

None == [tag |-> "None"]
Some(v) == [tag |-> "Some", val |-> v]
Ok(v) == [tag |-> "Ok", val |-> v]
Err(why) == [tag |-> "Err", why |-> why]

RECURSIVE LinesFrom(_, _, _)
LinesFrom(s, i, cur) ==
    IF i > Len(s)
    THEN IF cur = <<>> THEN <<>> ELSE <<cur>>
    ELSE IF s[i] = "\n"
         THEN LET line == IF cur # <<>> /\ cur[Len(cur)] = "\r"
                          THEN SubSeq(cur, 1, Len(cur) - 1) ELSE cur
              IN  <<line>> \o LinesFrom(s, i + 1, <<>>)
         ELSE LinesFrom(s, i + 1, Append(cur, s[i]))

\* str::lines
lines(s) == LinesFrom(s, 1, <<>>)

RECURSIVE SplitFrom(_, _, _)
SplitFrom(s, i, cur) ==
    IF i > Len(s)
    THEN IF cur = <<>> THEN <<>> ELSE <<cur>>
    ELSE IF s[i] \in White
         THEN (IF cur = <<>> THEN <<>> ELSE <<cur>>) \o SplitFrom(s, i + 1, <<>>)
         ELSE SplitFrom(s, i + 1, Append(cur, s[i]))

\* str::split_whitespace
split_whitespace(s) == SplitFrom(s, 1, <<>>)

Arrow == <<"=", ">">>

\* the test of line 19: TRUE when the line is skipped
SkipNoArrowTest(name, arrow, path) ==
    name = path \/ path = <<>> \/ path[1] = "("

Skip(name, arrow, path) ==
    name = path \/ path = <<>> \/ arrow # Arrow \/ path[1] = "("

RECURSIVE ParseLines(_)
ParseLines(ls) ==
    IF ls = <<>> THEN <<>>
    ELSE LET fields == split_whitespace(Head(ls))
         IN  IF Len(fields) # 4 THEN ParseLines(Tail(ls))
             ELSE IF Skip(fields[1], fields[2], fields[3])
                  THEN ParseLines(Tail(ls))
                  ELSE <<fields[3]>> \o ParseLines(Tail(ls))

parse_interp(text) == ParseLines(lines(text))

----------------------------------------------------------------------------
(* Paths *)

RECURSIVE CompsFrom(_, _, _)
CompsFrom(s, i, cur) ==
    IF i > Len(s)
    THEN IF cur = <<>> THEN <<>> ELSE <<cur[1]>>
    ELSE IF s[i] = "/"
         THEN (IF cur = <<>> THEN <<>> ELSE <<cur[1]>>) \o CompsFrom(s, i + 1, <<>>)
         ELSE CompsFrom(s, i + 1, <<s[i]>>)

\* PathBuf::from: a leading "/" makes the path absolute, empty components vanish
PathBufFrom(s) ==
    [abs |-> s # <<>> /\ s[1] = "/", comps |-> CompsFrom(s, 1, <<>>)]

RECURSIVE JoinSlash(_)
JoinSlash(cs) ==
    IF cs = <<>> THEN <<>>
    ELSE IF Len(cs) = 1 THEN <<cs[1]>>
    ELSE <<cs[1], "/">> \o JoinSlash(Tail(cs))

\* Path::to_str
to_str(p) == (IF p.abs THEN <<"/">> ELSE <<>>) \o JoinSlash(p.comps)

is_relative(p) == ~p.abs

\* Path::parent: drops the last component as written; "/" and "" have none
parent(p) ==
    IF p.comps = <<>> THEN None
    ELSE Some([abs |-> p.abs, comps |-> SubSeq(p.comps, 1, Len(p.comps) - 1)])

\* Path::join: an absolute argument replaces the receiver
join(p, q) ==
    IF q.abs THEN q ELSE [abs |-> p.abs, comps |-> p.comps \o q.comps]

----------------------------------------------------------------------------
(* The filesystem: directories /, /x and /x/y, and three entries of /x/y   *)
(* that are each absent, a regular file or a symbolic link.                *)

N0 == "lib.so"
N1 == "lib.so.1"
N2 == "lib.so.1.2"
Names == {N0, N1, N2}

Dirs == {<<>>, <<"x">>, <<"x", "y">>}
Slots == {<<"x", "y", n>> : n \in Names}
Cwd == <<>>

Abs(cs) == [abs |-> TRUE, comps |-> cs]
Rel(cs) == [abs |-> FALSE, comps |-> cs]
P(n) == Abs(<<"x", "y", n>>)

Absent == [kind |-> "absent"]
File == [kind |-> "file"]
Link(t) == [kind |-> "link", readable |-> TRUE, target |-> t]
BadLink == [kind |-> "link", readable |-> FALSE]

\* the node a path names, every component but the last followed as the kernel
\* does: ".." steps to the parent directory, a name steps into a directory
RECURSIVE Lookup(_, _)
Lookup(cur, rest) ==
    IF rest = <<>> THEN Some(cur)
    ELSE IF cur \notin Dirs THEN None
    ELSE IF Head(rest) = ".."
         THEN Lookup(IF cur = <<>> THEN cur ELSE SubSeq(cur, 1, Len(cur) - 1),
                     Tail(rest))
         ELSE Lookup(Append(cur, Head(rest)), Tail(rest))

Node(p) == Lookup(IF p.abs THEN <<>> ELSE Cwd, p.comps)

\* Path::symlink_metadata (lstat): the last component is not followed
symlink_metadata(f, p) ==
    IF Len(p.comps) > PathMax THEN Err("ENAMETOOLONG")
    ELSE LET n == Node(p)
         IN  IF n = None THEN Err("ENOENT")
             ELSE IF n.val \in Dirs THEN Ok([is_symlink |-> FALSE])
             ELSE IF n.val \notin Slots \/ f[n.val].kind = "absent" THEN Err("ENOENT")
             ELSE Ok([is_symlink |-> f[n.val].kind = "link"])

\* Path::read_link
read_link(f, p) ==
    IF Len(p.comps) > PathMax THEN Err("ENAMETOOLONG")
    ELSE LET n == Node(p)
         IN  IF n = None \/ n.val \notin Slots THEN Err("ENOENT")
             ELSE IF f[n.val].kind # "link" THEN Err("EINVAL")
             ELSE IF ~f[n.val].readable THEN Err("EIO")
             ELSE Ok(f[n.val].target)

\* lines 143-151: the path the walk continues with
NextDepNoParent(d, target) == target

NextDep(d, target) ==
    IF is_relative(target) /\ parent(d) # None
    THEN join(parent(d).val, target)
    ELSE target

----------------------------------------------------------------------------
(* The ELF interpreter locator *)

ET_DYN == 3
\* e_type values: relocatable, executable, shared object
ElfTypes == {ET_DYN - 2, ET_DYN - 1, ET_DYN}
ELF32 == "ELF32"
ELF64 == "ELF64"

Lib32Pattern == "/lib32/ld-*.so.*"
Lib64Pattern == "/lib64/ld-*.so.*"
GenericPattern == "/lib/ld-*.so.*"
Patterns == {Lib32Pattern, Lib64Pattern, GenericPattern}

RECURSIVE FirstOk(_)
FirstOk(rs) ==
    IF rs = <<>> THEN None
    ELSE IF Head(rs).tag = "Ok" THEN Some(Head(rs).val)
    ELSE FirstOk(Tail(rs))

ld_so(class, g) ==
    LET arch_specific == IF class = ELF32 THEN Lib32Pattern ELSE Lib64Pattern
        generic == GenericPattern
    IN  FirstOk(g[arch_specific] \o g[generic])

RECURSIVE trim_end_nul(_)
trim_end_nul(s) ==
    IF s # <<>> /\ s[Len(s)] = NUL
    THEN trim_end_nul(SubSeq(s, 1, Len(s) - 1))
    ELSE s

IsShebang(s) == Len(s) >= 2 /\ s[1] = "#" /\ s[2] = "!"

inspect_elf_interp(e, g) ==
    IF e.state = "noopen" THEN Err("failed to open binary")
    ELSE IF e.state = "notelf" THEN Err("failed to read binary")
    ELSE LET class == e.class
             elf_type == e.e_type
         IN
         IF e.state = "badtable" THEN Err("elf section table should be parseable")
         ELSE IF ~e.section.present THEN Ok(None)
         ELSE IF ~e.section.readable THEN Err("unable to access binary interp section")
         ELSE IF ~e.section.utf8 THEN Err("utf8")
         ELSE LET i == trim_end_nul(e.section.bytes)
                  unknown_class == class = ELF64 \/ class = ELF32
                  dynamic_elf == elf_type # ET_DYN
              IN  IF IsShebang(i) THEN Ok(None)
                  ELSE IF i # <<>> THEN Ok(Some(i))
                  ELSE IF ~dynamic_elf \/ unknown_class THEN Ok(None)
                  ELSE Ok(ld_so(class, g))

----------------------------------------------------------------------------
(* Inputs *)

Str(p) == to_str(p)
Addr == <<"(", "0", ")">>

\* one line of a loader report
RECURSIVE Words(_, _)
Words(ws, sep) ==
    IF ws = <<>> THEN <<>>
    ELSE IF Len(ws) = 1 THEN ws[1]
    ELSE ws[1] \o sep \o Words(Tail(ws), sep)

RECURSIVE Render(_, _)
Render(ls, st) ==
    IF ls = <<>> THEN <<>>
    ELSE st.lead \o Words(Head(ls), st.sep)
         \o (IF Len(ls) = 1 /\ ~st.final THEN <<>> ELSE st.eol)
         \o Render(Tail(ls), st)

Styles ==
    { [lead |-> <<>>, sep |-> <<" ">>, eol |-> <<"\n">>, final |-> FALSE],
      [lead |-> <<" ", " ">>, sep |-> <<" ", " ">>, eol |-> <<"\n">>, final |-> TRUE],
      [lead |-> <<"\t">>, sep |-> <<"\t">>, eol |-> <<"\r", "\n">>, final |-> TRUE] }

WordSet == { <<N0>>, Str(P(N0)), Arrow, Addr }

SeqsUpTo(S, n) == UNION {[1..k -> S] : k \in 0..n}

\* the lines a loader prints: a resolved library, a second one, the vdso,
\* a library that was not found, the loader's own entry
ReportLines ==
    { <<<<N0>>, Arrow, Str(P(N0)), Addr>>,
      <<<<N1>>, Arrow, Str(P(N1)), Addr>>,
      <<<<"vdso">>, Arrow, Addr>>,
      <<Str(P(N2)), Addr>> }

\* reports of at most MaxLines lines: report lines, then one line of any words
SrcTexts ==
    { body \o <<last>> :
        body \in SeqsUpTo(ReportLines, MaxLines - 1),
        last \in SeqsUpTo(WordSet, MaxFields) }

Tight == [lead |-> <<>>, sep |-> <<" ">>, eol |-> <<"\n">>, final |-> TRUE]

LoaderReports ==
    { Render(<<>>, Tight),
      Render(<<<<<<N0>>, Arrow, Str(P(N0)), Addr>>,
               <<<<"vdso">>, Arrow, Addr>>,
               <<Str(P(N1)), Addr>>>>, Tight),
      Render(<<<<<<N1>>, Arrow, Str(P(N1)), Addr>>,
               <<<<N0>>, Arrow, Str(P(N0)), Addr>>>>, Tight) }

LoaderOutcomes ==
    { [spawned |-> FALSE, status |-> 0, utf8 |-> TRUE, stdout |-> <<>>],
      [spawned |-> TRUE, status |-> 1, utf8 |-> TRUE, stdout |-> <<>>],
      [spawned |-> TRUE, status |-> 0, utf8 |-> FALSE, stdout |-> <<>>] }
    \cup { [spawned |-> TRUE, status |-> 0, utf8 |-> TRUE, stdout |-> t] :
             t \in LoaderReports }

NoLoader == [spawned |-> FALSE, status |-> 0, utf8 |-> TRUE, stdout |-> <<>>]

Section(bytes) == [present |-> TRUE, readable |-> TRUE, utf8 |-> TRUE, bytes |-> bytes]
NoSection == [present |-> FALSE, readable |-> TRUE, utf8 |-> TRUE, bytes |-> <<>>]

Sections ==
    { NoSection,
      [present |-> TRUE, readable |-> FALSE, utf8 |-> TRUE, bytes |-> <<>>],
      [present |-> TRUE, readable |-> TRUE, utf8 |-> FALSE, bytes |-> <<>>],
      Section(<<NUL>>),
      Section(<<"#", "!", "/", "x", NUL>>),
      Section(Str(P(N1)) \o <<NUL>>),
      Section(Str(P(N2)) \o <<NUL, NUL>>) }

Elfs ==
    { [state |-> st, class |-> ELF64, e_type |-> ET_DYN - 1, section |-> NoSection] :
        st \in {"noopen", "notelf", "badtable"} }
    \cup { [state |-> "ok", class |-> c, e_type |-> t, section |-> sec] :
             c \in {ELF32, ELF64}, t \in ElfTypes, sec \in Sections }

NoElf == [state |-> "noopen", class |-> ELF64, e_type |-> ET_DYN - 1, section |-> NoSection]

Ld(dir) == <<"/", dir, "/", "ld.so">>

GlobSets ==
    { [pat \in Patterns |->
         IF pat = GenericPattern THEN gen
         ELSE IF pat = Lib64Pattern THEN arch
         ELSE <<>>] :
        arch \in {<<>>, <<Ok(Ld("lib64"))>>, <<Err("EACCES"), Ok(Ld("lib64"))>>},
        gen \in {<<>>, <<Ok(Ld("lib"))>>} }

NoGlobs == [pat \in Patterns |-> <<>>]

\* what an entry of /x/y can be
Targets ==
    {Rel(<<n>>) : n \in Names}
    \cup {Rel(<<"..", "y", N0>>), Rel(<<"..", "y", N1>>)}
    \cup {P(N0), P(N2)}

Entries == {Absent, File, BadLink} \cup {Link(t) : t \in Targets}
ListEntries == {Absent, File, BadLink, Link(Rel(<<N1>>)), Link(P(N2))}

NoFs == [sl \in Slots |-> Absent]
Pending == [tag |-> "Pending"]

----------------------------------------------------------------------------
(* list, call_interp, follow and follow_internal *)

EmptyVec == EmptyBag

\* list without the early return of lines 111-113
list_always_calls ==
    /\ pc = "list"
    /\ interp' = inspect_elf_interp(elf, globs)
    /\ IF interp'.tag = "Err"
       THEN /\ ret' = Err(interp'.why)
            /\ pc' = "done"
       ELSE /\ ret' = ret
            /\ pc' = "call_interp"
    /\ UNCHANGED <<input, srcLines, style, paths, elf, globs, fs, loader,
                   dependencies, di, seen, dep, checked, calls>>

\* lines 110-113: list asks the locator; an error or "no interpreter" ends the call
list ==
    /\ pc = "list"
    /\ interp' = inspect_elf_interp(elf, globs)
    /\ IF interp'.tag = "Err"
       THEN /\ ret' = Err(interp'.why)
            /\ pc' = "done"
       ELSE IF interp'.val = None
       THEN /\ ret' = Ok(EmptyVec)
            /\ pc' = "done"
       ELSE /\ ret' = ret
            /\ pc' = "call_interp"
    /\ UNCHANGED <<input, srcLines, style, paths, elf, globs, fs, loader,
                   dependencies, di, seen, dep, checked, calls>>

\* lines 27-38, with 114-116 and 120 of its caller: run "<interp> --list
\* <binary>", parse its report, push the interpreter and enter follow with an
\* empty seen_deps
call_interp ==
    /\ pc = "call_interp"
    /\ calls' = calls + 1
    /\ \E out \in LoaderOutcomes :
         /\ loader' = out
         /\ IF ~out.spawned
            THEN /\ ret' = Err("failed to call interpreter")
                 /\ pc' = "done"
                 /\ UNCHANGED <<dependencies, di, seen>>
            ELSE IF out.status # 0
            THEN /\ ret' = Err("program exited with status")
                 /\ pc' = "done"
                 /\ UNCHANGED <<dependencies, di, seen>>
            ELSE IF ~out.utf8
            THEN /\ ret' = Err("utf8")
                 /\ pc' = "done"
                 /\ UNCHANGED <<dependencies, di, seen>>
            ELSE /\ dependencies' = Append(parse_interp(out.stdout), interp.val.val)
                 /\ di' = 0
                 /\ seen' = {}
                 /\ pc' = "follow"
                 /\ ret' = ret
    /\ UNCHANGED <<input, srcLines, style, paths, elf, globs, fs, interp, dep, checked>>

\* lines 121-122: the next entry of dependencies starts a walk
follow_next ==
    /\ pc = "follow"
    /\ di < Len(dependencies)
    /\ dep' = PathBufFrom(dependencies[di + 1])
    /\ di' = di + 1
    /\ checked' = FALSE
    /\ pc' = "check"
    /\ UNCHANGED <<input, srcLines, style, paths, elf, globs, fs, interp, loader,
                   dependencies, seen, calls, ret>>

\* lines 124-128: the Vec collected from seen_deps, one string per member
Collect(set) ==
    LET strs == {to_str(q) : q \in set}
    IN  [str \in strs |-> Cardinality({q \in set : to_str(q) = str})]

follow_return ==
    /\ pc = "follow"
    /\ di = Len(dependencies)
    /\ ret' = Ok(Collect(seen))
    /\ pc' = "done"
    /\ UNCHANGED <<input, srcLines, style, paths, elf, globs, fs, interp, loader,
                   dependencies, di, seen, dep, checked, calls>>

\* lines 133-135
follow_internal_seen ==
    /\ pc = "check"
    /\ IF dep \in seen
       THEN /\ pc' = "follow"
            /\ checked' = checked
       ELSE /\ pc' = "lstat"
            /\ checked' = TRUE
    /\ UNCHANGED <<input, srcLines, style, paths, elf, globs, fs, interp, loader,
                   dependencies, di, seen, dep, calls, ret>>

\* the walk recording only the paths that are not symlinks
follow_internal_lstat_final_only ==
    /\ pc = "lstat"
    /\ LET lstat == symlink_metadata(fs, dep)
       IN  IF lstat.tag = "Err"
           THEN /\ ret' = Err(lstat.why)
                /\ pc' = "done"
                /\ seen' = seen
           ELSE /\ seen' = IF lstat.val.is_symlink THEN seen ELSE seen \cup {dep}
                /\ pc' = IF lstat.val.is_symlink THEN "readlink" ELSE "follow"
                /\ ret' = ret
    /\ UNCHANGED <<input, srcLines, style, paths, elf, globs, fs, interp, loader,
                   dependencies, di, dep, checked, calls>>

\* the walk giving up on an entry it cannot read and going on with the next
follow_internal_lstat_skip ==
    /\ pc = "lstat"
    /\ LET lstat == symlink_metadata(fs, dep)
       IN  IF lstat.tag = "Err"
           THEN /\ pc' = "follow"
                /\ seen' = seen
           ELSE /\ seen' = seen \cup {dep}
                /\ pc' = IF lstat.val.is_symlink THEN "readlink" ELSE "follow"
    /\ UNCHANGED <<input, srcLines, style, paths, elf, globs, fs, interp, loader,
                   dependencies, di, dep, checked, calls, ret>>

\* lines 136-141
follow_internal_lstat ==
    /\ pc = "lstat"
    /\ LET lstat == symlink_metadata(fs, dep)
       IN  IF lstat.tag = "Err"
           THEN /\ ret' = Err(lstat.why)
                /\ pc' = "done"
                /\ seen' = seen
           ELSE /\ seen' = seen \cup {dep}
                /\ pc' = IF lstat.val.is_symlink THEN "readlink" ELSE "follow"
                /\ ret' = ret
    /\ UNCHANGED <<input, srcLines, style, paths, elf, globs, fs, interp, loader,
                   dependencies, di, dep, checked, calls>>

\* the loop re-entered below the visited-set test
follow_internal_next_unchecked ==
    /\ pc = "readlink"
    /\ LET next == read_link(fs, dep)
       IN  IF next.tag = "Err"
           THEN /\ ret' = Err(next.why)
                /\ pc' = "done"
                /\ UNCHANGED <<dep, checked>>
           ELSE /\ dep' = NextDep(dep, next.val)
                /\ checked' = FALSE
                /\ pc' = "lstat"
                /\ ret' = ret
    /\ UNCHANGED <<input, srcLines, style, paths, elf, globs, fs, interp, loader,
                   dependencies, di, seen, calls>>

\* the target recorded as seen when it is read, before it is walked
follow_internal_next_premark ==
    /\ pc = "readlink"
    /\ LET next == read_link(fs, dep)
       IN  IF next.tag = "Err"
           THEN /\ ret' = Err(next.why)
                /\ pc' = "done"
                /\ UNCHANGED <<dep, checked, seen>>
           ELSE /\ dep' = NextDep(dep, next.val)
                /\ seen' = seen \cup {dep'}
                /\ checked' = FALSE
                /\ pc' = "check"
                /\ ret' = ret
    /\ UNCHANGED <<input, srcLines, style, paths, elf, globs, fs, interp, loader,
                   dependencies, di, calls>>

\* lines 143-151
follow_internal_next ==
    /\ pc = "readlink"
    /\ LET next == read_link(fs, dep)
       IN  IF next.tag = "Err"
           THEN /\ ret' = Err(next.why)
                /\ pc' = "done"
                /\ UNCHANGED <<dep, checked>>
           ELSE /\ dep' = NextDep(dep, next.val)
                /\ checked' = FALSE
                /\ pc' = "check"
                /\ ret' = ret
    /\ UNCHANGED <<input, srcLines, style, paths, elf, globs, fs, interp, loader,
                   dependencies, di, seen, calls>>

\* parse_interp applied to the report
Parse ==
    /\ pc = "parse"
    /\ paths' = parse_interp(input)
    /\ pc' = "parsed"
    /\ UNCHANGED <<input, srcLines, style, elf, globs, fs, interp, loader,
                   dependencies, di, seen, dep, checked, calls, ret>>

----------------------------------------------------------------------------
(* Specifications *)

Idle ==
    /\ input = <<>> /\ srcLines = <<>> /\ style = Tight /\ paths = <<>>
    /\ interp = Pending /\ loader = NoLoader
    /\ di = 0 /\ seen = {} /\ dep = Abs(<<>>) /\ checked = FALSE
    /\ calls = 0 /\ ret = Pending

\* list(binary_path) on any binary and filesystem
Init ==
    /\ Idle
    /\ pc = "list"
    /\ elf \in Elfs
    /\ globs \in GlobSets
    /\ fs \in [Slots -> ListEntries]
    /\ dependencies = <<>>

Next ==
    \/ list
    \/ call_interp
    \/ follow_next
    \/ follow_return
    \/ follow_internal_seen
    \/ follow_internal_lstat
    \/ follow_internal_next

Spec == Init /\ [][Next]_vars

\* follow(dependencies) on any list of paths and any filesystem
InitFollow ==
    /\ Idle
    /\ pc = "follow"
    /\ elf = NoElf
    /\ globs = NoGlobs
    /\ fs \in [Slots -> Entries]
    /\ dependencies \in SeqsUpTo({Str(P(n)) : n \in Names}, MaxDeps)

NextFollow ==
    \/ follow_next
    \/ follow_return
    \/ follow_internal_seen
    \/ follow_internal_lstat
    \/ follow_internal_next

SpecFollow == InitFollow /\ [][NextFollow]_vars

\* the walk is one thread that runs until it returns
FairSpecFollow == SpecFollow /\ WF_vars(NextFollow)

\* parse_interp on any report
InitParse ==
    /\ pc = "parse"
    /\ srcLines \in SrcTexts
    /\ style \in Styles
    /\ input = Render(srcLines, style)
    /\ paths = <<>>
    /\ elf = NoElf /\ globs = NoGlobs /\ fs = NoFs
    /\ interp = Pending /\ loader = NoLoader /\ dependencies = <<>>
    /\ di = 0 /\ seen = {} /\ dep = Abs(<<>>) /\ checked = FALSE
    /\ calls = 0 /\ ret = Pending

NextParse == Parse

SpecParse == InitParse /\ [][NextParse]_vars

----------------------------------------------------------------------------
(* Vocabulary of the properties, defined on the filesystem alone *)

IsLink(p) ==
    LET m == symlink_metadata(fs, p) IN m.tag = "Ok" /\ m.val.is_symlink

IsFinal(p) ==
    LET m == symlink_metadata(fs, p) IN m.tag = "Ok" /\ ~m.val.is_symlink

\* where the link at the absolute path p points: a relative target is taken
\* against the directory that holds the link
LinkTarget(p) ==
    LET t == read_link(fs, p).val
    IN  IF t.abs THEN t
        ELSE Abs(SubSeq(p.comps, 1, Len(p.comps) - 1) \o t.comps)

Readable(p) == read_link(fs, p).tag = "Ok"

\* the paths of the chain that starts at p, up to its end, its first repeated
\* path or its first failure
RECURSIVE ChainNodes(_, _)
ChainNodes(p, visited) ==
    IF p \in visited \/ symlink_metadata(fs, p).tag = "Err" THEN visited
    ELSE IF ~IsLink(p) \/ ~Readable(p) THEN visited \cup {p}
    ELSE ChainNodes(LinkTarget(p), visited \cup {p})

\* the chain that starts at p meets a path that cannot be read
RECURSIVE ChainFails(_, _)
ChainFails(p, visited) ==
    IF p \in visited THEN FALSE
    ELSE IF symlink_metadata(fs, p).tag = "Err" THEN TRUE
    ELSE IF ~IsLink(p) THEN FALSE
    ELSE IF ~Readable(p) THEN TRUE
    ELSE ChainFails(LinkTarget(p), visited \cup {p})

\* the final non-symlink path of the chain that starts at p, if it has one
RECURSIVE ChainEnd(_, _)
ChainEnd(p, visited) ==
    IF p \in visited \/ symlink_metadata(fs, p).tag = "Err" THEN None
    ELSE IF ~IsLink(p) THEN Some(p)
    ELSE IF ~Readable(p) THEN None
    ELSE ChainEnd(LinkTarget(p), visited \cup {p})

Range(f) == {f[i] : i \in DOMAIN f}
Returned == {PathBufFrom(str) : str \in DOMAIN ret.val}
Starts == {PathBufFrom(d) : d \in Range(dependencies)}

----------------------------------------------------------------------------
(* Properties *)

C2_Terminates ==
    /\ <>(pc = "done")
    /\ [](pc \in {"lstat", "readlink"} => checked)

C2_Witness ==
    /\ pc = "done"
    /\ dependencies = <<Str(P(N0))>>
    /\ fs[<<"x", "y", N0>>] = Link(Rel(<<"..", "y", N0>>))
    /\ ret.tag = "Err"

\* a and b are symlinks that point at each other
TwoCycle(a, b) ==
    /\ a # b
    /\ IsLink(P(a)) /\ Readable(P(a)) /\ Node(LinkTarget(P(a))) = Some(<<"x", "y", b>>)
    /\ IsLink(P(b)) /\ Readable(P(b)) /\ Node(LinkTarget(P(b))) = Some(<<"x", "y", a>>)

\* C3: the walk over a chain a -> b -> a, started at a or at b, returns
\* success with both a and b in the visited set (under any spelling).
C3_CycleSafe ==
    \A a, b \in Names :
        (/\ pc = "done"
         /\ TwoCycle(a, b)
         /\ dependencies \in {<<Str(P(a))>>, <<Str(P(b))>>})
        => /\ ret.tag = "Ok"
           /\ {<<"x", "y", a>>, <<"x", "y", b>>} \subseteq {Node(q).val : q \in seen}

\* the loader-fallback search: first match of the pattern of the class, else
\* first match of the generic pattern, else nothing
Fallback(class) == ld_so(class, globs)

\* C4: without an .interp section the locator answers with the fallback
\* search for a shared object of class 32 or 64 and with no interpreter for
\* every other type.
C4_AbsentSection ==
    (interp # Pending /\ elf.state = "ok" /\ ~elf.section.present) =>
        interp = Ok(IF elf.e_type = ET_DYN /\ elf.class \in {ELF32, ELF64}
                    THEN Fallback(elf.class) ELSE None)

EmptyInterp ==
    /\ elf.state = "ok"
    /\ elf.section.present /\ elf.section.readable /\ elf.section.utf8
    /\ trim_end_nul(elf.section.bytes) = <<>>

\* C5: an .interp section that is empty once its NUL bytes are trimmed makes
\* the locator answer with the fallback search for a shared object of class
\* 32 or 64.
C5_EmptySection ==
    (/\ interp # Pending /\ EmptyInterp
     /\ elf.e_type = ET_DYN /\ elf.class \in {ELF32, ELF64})
    => interp = Ok(Fallback(elf.class))

Static == elf.state = "ok" /\ ~elf.section.present /\ elf.e_type # ET_DYN

Shebang ==
    /\ elf.state = "ok"
    /\ elf.section.present /\ elf.section.readable /\ elf.section.utf8
    /\ IsShebang(trim_end_nul(elf.section.bytes))

\* C6: a static binary and a shebang .interp give no interpreter, and once
\* the locator has answered "no interpreter" list has returned the empty
\* set, no loader was spawned and no walk was started.
C6_NoInterpreter ==
    /\ (interp # Pending /\ (Static \/ Shebang)) => interp = Ok(None)
    /\ interp = Ok(None) =>
          /\ pc = "done"
          /\ ret = Ok(EmptyVec)
          /\ calls = 0
          /\ di = 0 /\ seen = {} /\ dependencies = <<>>

C6_Witness == pc = "done" /\ interp = Ok(None) /\ Static /\ ret = Ok(EmptyVec)

LoaderFailed == ~loader.spawned \/ loader.status # 0 \/ ~loader.utf8

Wanted ==
    {PathBufFrom(d) : d \in Range(parse_interp(loader.stdout)) \cup {interp.val.val}}

Accepted(l) ==
    /\ Len(l) = 4
    /\ l[1] # l[3]
    /\ l[3] # <<>>
    /\ l[2] = Arrow
    /\ l[3][1] # "("

Thirds(ls) ==
    LET acc == SelectSeq(ls, Accepted) IN [i \in 1..Len(acc) |-> acc[i][3]]

\* C8: parse_interp returns, in line order, the third word of every line of
\* exactly four words whose first and third words differ, whose second word
\* is "=>" and whose third word does not begin with "("; nothing else.
C8_Parse == pc = "parsed" => paths = Thirds(srcLines)

C8_Witness ==
    /\ pc = "parsed"
    /\ Len(srcLines) = 2
    /\ paths = <<Str(P(N1)), Str(P(N0))>>

Scenario ==
    /\ fs[<<"x", "y", N0>>] = Link(Rel(<<N1>>))
    /\ fs[<<"x", "y", N1>>] = Link(Rel(<<N2>>))
    /\ fs[<<"x", "y", N2>>] = File
    /\ dependencies = <<Str(P(N0))>>

\* C9: the walk leaves a symlink for its target when the target is absolute
\* and for the target appended to the symlink's parent directory when it is
\* relative; /x/y/lib.so -> lib.so.1 -> lib.so.1.2 is walked through
\* /x/y/lib.so.1 to /x/y/lib.so.1.2.
C9_Relative ==
    /\ []((Scenario /\ pc = "done") =>
            /\ ret.tag = "Ok"
            /\ seen = {P(N0), P(N1), P(N2)}
            /\ dep = P(N2))
    /\ [][(pc = "readlink" /\ pc' = "check") =>
            LET t == read_link(fs, dep).val
            IN  dep' = IF t.abs THEN t
                       ELSE Abs(SubSeq(dep.comps, 1, Len(dep.comps) - 1) \o t.comps)]_vars

C9_Witness == Scenario /\ pc = "done" /\ dep = P(N2) /\ P(N1) \in seen

====
